---- MODULE Spec2Model ----
(***************************************************************************)
(* Warehouse counting workflow: the counting-data and worker-performance   *)
(* edge handlers, the tables they write, and the worker's counting         *)
(* interface.  Every await of a handler is one atomic step on the store,   *)
(* so concurrent requests interleave between their database calls.         *)
(***************************************************************************)
EXTENDS Integers, Sequences, FiniteSets, TLC

\* ------------------------------------------------------------------ bounds
MaxReq == 2          \* request slots that may be in flight at once
MaxSessions == 1     \* rows of counting_sessions (recount specification)
MaxCounts == 3       \* rows of counting_data (concurrent specification)
MaxPerfRows == 3     \* rows of worker_performance (ranking specification)
MaxClock == 2        \* the clock, in half minutes
MaxDay == 2          \* calendar days
MaxSeqCounts == 18   \* rows of counting_data (sequential specification)
MaxTabs == 2         \* browser tabs of one worker
MaxTabSessions == 3  \* rows of counting_sessions (session specification)
MaxValidCounts == 2  \* rows of counting_data (request specification)
MaxRaceRows == 2     \* rows of worker_performance (concurrent leaderboards)
MaxRaceCounts == 2   \* rows of counting_data (counts racing on one row)
MaxFormSessions == 2 \* rows of counting_sessions (counting form specification)
MaxDayCounts == 4    \* rows of counting_data at which no further count is sent

\* ------------------------------------------------------- program constants
EffPrecision == 5
EffScale == 2
DefaultLimit == 50

NULL == -1

\* users: id (uuid) -> user_id (username) and warehouse_name
Workers == {"u1", "u2"}
UserId(w) == IF w = "u1" THEN "alice" ELSE "bob"
WarehouseOf(w) == IF w = "u1" THEN "A" ELSE "B"
Usernames == {UserId(w) : w \in Workers}

Quantities == {1, 2}
BookQuantities == {2}
RecountQuantities == {3}
SeqQuantities == {2}
CountWorkers == {"u1"}

VARIABLES
  counting_sessions,   \* Seq of [worker_id, warehouse_name, start_time, end_time, status]
  counting_data,       \* Seq of counting records
  worker_performance,  \* Seq of performance rows; the row id is its index
  audit_logs,          \* Seq of [user_id, action]
  now,                 \* clock in half minutes
  today,               \* current date
  req,                 \* request slot -> state of a counting-data POST
  rank,                \* request slot -> state of a worker-performance GET
  tabs                 \* browser tab -> CountingInterface state

vars == <<counting_sessions, counting_data, worker_performance, audit_logs,
          now, today, req, rank, tabs>>

Slots == 1..MaxReq
Tabs == 1..MaxTabs

\* ------------------------------------------------------------ pure helpers
RECURSIVE Pow10(_)
Pow10(n) == IF n = 0 THEN 1 ELSE 10 * Pow10(n - 1)

\* Math.round on a non-negative rational p/q: floor(p/q + 1/2)
MathRound(p, q) == (2 * p + q) \div (2 * q)

\* minutes between start and end, both in half minutes
\* Math.round((end - start) / (1000 * 60))
TimeTaken(start, end) == MathRound(end - start, 2)

\* Math.round((bins / (timeTaken / 60)) * 100) / 100, kept in hundredths
Efficiency(bins, timeTaken) ==
  IF timeTaken > 0 THEN MathRound(bins * 60 * 100, timeTaken) ELSE 0

\* decimal(5,2): the absolute value must stay below 10^(5-2); e is in
\* units of 10^-2
DecimalFits(e) ==
  /\ e < Pow10(EffPrecision - EffScale) * Pow10(EffScale)
  /\ e > -(Pow10(EffPrecision - EffScale) * Pow10(EffScale))

\* a generated column that forgets the team-leader recount
DifferenceOfWorkerCount(qty_counted, qty_recounted_tl, qty_as_per_books) ==
  qty_counted - qty_as_per_books

\* difference integer GENERATED ALWAYS AS (COALESCE(recount, counted) - books)
Difference(qty_counted, qty_recounted_tl, qty_as_per_books) ==
  (IF qty_recounted_tl # NULL THEN qty_recounted_tl ELSE qty_counted)
    - qty_as_per_books

\* ---------------------------------------------------------------- requests
\* An optional value is the empty sequence (null) or a one-element sequence.
None == <<>>
Some(x) == <<x>>
IsSome(o) == Len(o) = 1
Get(o) == o[1]

IdleReq == [pc |-> "idle", method |-> "", authorized |-> FALSE,
            sessionId |-> 0, qty |-> 0, books |-> 0, missing |-> {},
            session |-> None, existingPerf |-> None,
            day |-> 0, countingData |-> None, status |-> 0]

\* a worker-performance GET: the ranked rows it read and the index of the
\* next ranking it writes back, or the worker whose day is asked for and
\* the stats answered
IdleRank == [pc |-> "idle", date |-> 0, warehouse |-> "", limit |-> 0,
             rankedData |-> <<>>, i |-> 0,
             workerId |-> "", stats |-> None, status |-> 0]

\* CountingInterface before it mounts: the useState initial values
NoConfirmation == [binNo |-> "", quantity |-> 0, show |-> FALSE]

IdleTab == [mounted |-> FALSE, checking |-> FALSE, pending |-> "none",
            session |-> NULL, loading |-> FALSE, error |-> "",
            loadingBins |-> FALSE, bins |-> {}, selectedBin |-> NULL,
            quantity |-> <<>>, confirmation |-> NoConfirmation,
            ending |-> NULL, request |-> None]

\* the handler has returned: only the response is left of the request
Response(status, data) ==
  [IdleReq EXCEPT !.pc = "done", !.status = status, !.countingData = data]

InFlight == {r \in Slots : req[r].pc \notin {"idle", "done"}}

Init ==
  /\ counting_sessions = <<>>
  /\ counting_data = <<>>
  /\ worker_performance = <<>>
  /\ audit_logs = <<>>
  /\ now = 0
  /\ today = 1
  /\ req = [r \in Slots |-> IdleReq]
  /\ rank = [r \in Slots |-> IdleRank]
  /\ tabs = [t \in Tabs |-> IdleTab]

\* ------------------------------------------------------------------- clock
Tick ==
  /\ now < MaxClock
  /\ now' = now + 1
  /\ UNCHANGED <<counting_sessions, counting_data, worker_performance,
                 audit_logs, today, req, rank, tabs>>

NextDay ==
  /\ today < MaxDay
  /\ today' = today + 1
  /\ UNCHANGED <<counting_sessions, counting_data, worker_performance,
                 audit_logs, now, req, rank, tabs>>

\* -------------------------------------------------------- session manager
\* counting_sessions row as the table defaults fill it
NewSession(w) ==
  [worker_id |-> w, warehouse_name |-> WarehouseOf(w), start_time |-> now,
   end_time |-> NULL, status |-> "active"]

\* startSession: creates a session with status=active, start_time=now; no
\* uniqueness of the active session is enforced at the data layer
SessionsAfterStart(w) == Append(counting_sessions, NewSession(w))

\* an endSession that accepts a session of any status
CanEndAnyStatus(sid) == sid \in DOMAIN counting_sessions

\* endSession: sets end_time=now, status=completed; rejected once completed
CanEnd(sid) ==
  /\ sid \in DOMAIN counting_sessions
  /\ counting_sessions[sid].status = "active"

SessionsAfterEnd(sid) ==
  [counting_sessions EXCEPT ![sid].end_time = now, ![sid].status = "completed"]

\* getActiveSession: the ids of the worker's sessions with status=active
ActiveSessions(w) ==
  {sid \in DOMAIN counting_sessions :
     /\ counting_sessions[sid].worker_id = w
     /\ counting_sessions[sid].status = "active"}

StartSession(w) ==
  /\ counting_sessions' = SessionsAfterStart(w)
  /\ UNCHANGED <<counting_data, worker_performance, audit_logs, now, today,
                 req, rank, tabs>>

EndSession(sid) ==
  /\ CanEnd(sid)
  /\ counting_sessions' = SessionsAfterEnd(sid)
  /\ UNCHANGED <<counting_data, worker_performance, audit_logs, now, today,
                 req, rank, tabs>>

\* ------------------------------------------------- counting-data: POST
\* request bodies: a session id that resolves or the first one that does
\* not, a counted quantity, the bin's book quantity, and a difference
\* field the client may add
Bodies(quantities) ==
  [sessionId : 1..(Len(counting_sessions) + 1),
   qtyCountedWorker : quantities,
   qtyAsPerBooks : BookQuantities,
   difference : {NULL, 9}]

\* a POST with an Authorization header arrives: the body is destructured
\* into the four fields the handler reads; any other body field (here:
\* difference) is dropped
PostCountingData(r, body) ==
  /\ req[r].pc = "idle"
  /\ req' = [req EXCEPT ![r] = [IdleReq EXCEPT !.pc = "lookup",
                                  !.method = "POST", !.authorized = TRUE,
                                  !.sessionId = body.sessionId,
                                  !.qty = body.qtyCountedWorker,
                                  !.books = body.qtyAsPerBooks]]
  /\ UNCHANGED <<counting_sessions, counting_data, worker_performance,
                 audit_logs, now, today, rank, tabs>>

\* requests of any method, with or without the Authorization header; a
\* body may carry a negative count or lack one of the fields
Methods == {"POST", "GET", "PUT"}
ValidationQuantities == {-2, 1}
BodyFields == {"binNo", "qtyCountedWorker", "qtyAsPerBooks"}

Requests ==
  [method : Methods,
   authorized : BOOLEAN,
   sessionId : 1..(Len(counting_sessions) + 1),
   qtyCountedWorker : ValidationQuantities,
   qtyAsPerBooks : BookQuantities,
   missing : {{}} \cup {{f} : f \in BodyFields}]

\* a request is on its way to the counting-data endpoint
SendCountingData(r, request) ==
  /\ req[r].pc = "idle"
  /\ req' = [req EXCEPT ![r] = [IdleReq EXCEPT !.pc = "sent",
                                  !.method = request.method,
                                  !.authorized = request.authorized,
                                  !.sessionId = request.sessionId,
                                  !.qty = request.qtyCountedWorker,
                                  !.books = request.qtyAsPerBooks,
                                  !.missing = request.missing]]
  /\ UNCHANGED <<counting_sessions, counting_data, worker_performance,
                 audit_logs, now, today, rank, tabs>>

\* a handler that dispatches on the method without reading the header
ServeCountingDataUnchecked(r) ==
  /\ req[r].pc = "sent"
  /\ req' = [req EXCEPT ![r] =
               IF req[r].method = "POST" THEN [req[r] EXCEPT !.pc = "lookup"]
               ELSE IF req[r].method = "GET" THEN [req[r] EXCEPT !.pc = "query"]
               ELSE Response(405, None)]
  /\ UNCHANGED <<counting_sessions, counting_data, worker_performance,
                 audit_logs, now, today, rank, tabs>>

\* the handler starts: 401 without an Authorization header, then the
\* dispatch on the method; 405 for a method it does not serve
ServeCountingData(r) ==
  /\ req[r].pc = "sent"
  /\ req' = [req EXCEPT ![r] =
               IF ~req[r].authorized THEN Response(401, None)
               ELSE IF req[r].method = "POST" THEN [req[r] EXCEPT !.pc = "lookup"]
               ELSE IF req[r].method = "GET" THEN [req[r] EXCEPT !.pc = "query"]
               ELSE Response(405, None)]
  /\ UNCHANGED <<counting_sessions, counting_data, worker_performance,
                 audit_logs, now, today, rank, tabs>>

\* GET: the records are selected and returned
ListCountingData(r) ==
  /\ req[r].pc = "query"
  /\ req' = [req EXCEPT ![r] = Response(200, None)]
  /\ UNCHANGED <<counting_sessions, counting_data, worker_performance,
                 audit_logs, now, today, rank, tabs>>

\* a lookup whose result is used without the not-found check: the missing
\* session is dereferenced and the catch-all answers
LookupSessionUnchecked(r) ==
  /\ req[r].pc = "lookup"
  /\ IF req[r].sessionId \in DOMAIN counting_sessions
       THEN req' = [req EXCEPT ![r].pc = "insert",
                      ![r].session = Some(counting_sessions[req[r].sessionId])]
       ELSE req' = [req EXCEPT ![r] = Response(500, None)]
  /\ UNCHANGED <<counting_sessions, counting_data, worker_performance,
                 audit_logs, now, today, rank, tabs>>

\* Get session details; 404 when the lookup yields no row
LookupSession(r) ==
  /\ req[r].pc = "lookup"
  /\ IF req[r].sessionId \in DOMAIN counting_sessions
       THEN req' = [req EXCEPT ![r].pc = "insert",
                      ![r].session = Some(counting_sessions[req[r].sessionId])]
       ELSE req' = [req EXCEPT ![r] = Response(404, None)]
  /\ UNCHANGED <<counting_sessions, counting_data, worker_performance,
                 audit_logs, now, today, rank, tabs>>

\* the row the insert of counting data stores: the listed columns, date by
\* its default CURRENT_DATE, difference by its generated expression
CountingRow(q, session) ==
  [session_id |-> q.sessionId,
   wh_name |-> session.warehouse_name,
   date |-> today,
   username |-> UserId(session.worker_id),
   qty_counted |-> q.qty,
   qty_recounted_tl |-> NULL,
   qty_as_per_books |-> q.books,
   difference |-> Difference(q.qty, NULL, q.books)]

\* an insert whose error is not read: the handler goes on without a record
InsertCountingDataUnread(r) ==
  /\ req[r].pc = "insert"
  /\ IF req[r].missing # {}
       THEN /\ counting_data' = counting_data
            /\ req' = [req EXCEPT ![r].pc = "select"]
       ELSE /\ counting_data' =
                 Append(counting_data, CountingRow(req[r], Get(req[r].session)))
            /\ req' = [req EXCEPT ![r].pc = "select",
                         ![r].countingData = Some(Len(counting_data) + 1)]
  /\ UNCHANGED <<counting_sessions, worker_performance, audit_logs, now,
                 today, rank, tabs>>

\* Insert counting data; bin_no, qty_counted and qty_as_per_books are NOT
\* NULL without a default, so a body that lacks one of them fails the
\* insert, which is answered 400
InsertCountingData(r) ==
  /\ req[r].pc = "insert"
  /\ IF req[r].missing # {}
       THEN /\ counting_data' = counting_data
            /\ req' = [req EXCEPT ![r] = Response(400, None)]
       ELSE /\ counting_data' =
                 Append(counting_data, CountingRow(req[r], Get(req[r].session)))
            /\ req' = [req EXCEPT ![r].pc = "select",
                         ![r].countingData = Some(Len(counting_data) + 1)]
  /\ UNCHANGED <<counting_sessions, worker_performance, audit_logs, now,
                 today, rank, tabs>>

\* .eq('username', u).eq('date', d).single(): the row when exactly one
\* matches, otherwise null (the error is not read)
SinglePerf(u, d) ==
  LET ids == {i \in DOMAIN worker_performance :
                /\ worker_performance[i].username = u
                /\ worker_performance[i].date = d}
  IN IF Cardinality(ids) = 1
       THEN Some(CHOOSE i \in ids : TRUE)
       ELSE None

\* Get current performance data, for today as read right before
SelectExistingPerf(r) ==
  /\ req[r].pc = "select"
  /\ LET found == SinglePerf(UserId(Get(req[r].session).worker_id), today)
     IN req' = [req EXCEPT ![r].pc = "write", ![r].day = today,
                  ![r].existingPerf =
                     IF IsSome(found)
                       THEN Some([id |-> Get(found),
                                  no_of_bins_counted |->
                                     worker_performance[Get(found)].no_of_bins_counted,
                                  no_of_qty_counted |->
                                     worker_performance[Get(found)].no_of_qty_counted,
                                  time_taken_minutes |->
                                     worker_performance[Get(found)].time_taken_minutes])
                       ELSE None]
  /\ UNCHANGED <<counting_sessions, counting_data, worker_performance,
                 audit_logs, now, today, rank, tabs>>

newBinsCount(q) ==
  (IF IsSome(q.existingPerf) THEN Get(q.existingPerf).no_of_bins_counted ELSE 0) + 1

newQtyCount(q) ==
  (IF IsSome(q.existingPerf) THEN Get(q.existingPerf).no_of_qty_counted ELSE 0) + q.qty

\* Calculate time taken (if session is completed)
timeTaken(q) ==
  IF Get(q.session).end_time # NULL
    THEN TimeTaken(Get(q.session).start_time, Get(q.session).end_time)
    ELSE IF IsSome(q.existingPerf) THEN Get(q.existingPerf).time_taken_minutes ELSE 0

efficiency(q) == Efficiency(newBinsCount(q), timeTaken(q))

\* the table after the update of the existing row / the insert of a new
\* one; the store rejects a value the efficiency column cannot hold, and
\* the handler does not read that error
PerformanceAfterWrite(q) ==
  IF ~DecimalFits(efficiency(q))
    THEN worker_performance
    ELSE IF IsSome(q.existingPerf)
      THEN [worker_performance EXCEPT
              ![Get(q.existingPerf).id].no_of_bins_counted = newBinsCount(q),
              ![Get(q.existingPerf).id].no_of_qty_counted = newQtyCount(q),
              ![Get(q.existingPerf).id].time_taken_minutes = timeTaken(q),
              ![Get(q.existingPerf).id].efficiency = efficiency(q)]
      ELSE Append(worker_performance,
                  [wh_name |-> Get(q.session).warehouse_name,
                   date |-> q.day,
                   username |-> UserId(Get(q.session).worker_id),
                   no_of_bins_counted |-> newBinsCount(q),
                   no_of_qty_counted |-> newQtyCount(q),
                   time_taken_minutes |-> timeTaken(q),
                   efficiency |-> efficiency(q),
                   ranking |-> NULL])

WritePerformance(r) ==
  /\ req[r].pc = "write"
  /\ worker_performance' = PerformanceAfterWrite(req[r])
  /\ req' = [req EXCEPT ![r].pc = "audit"]
  /\ UNCHANGED <<counting_sessions, counting_data, audit_logs, now, today,
                 rank, tabs>>

AuditOutcomes == {"ok", "error", "throws"}

\* status the handler answers with once the audit insert has settled: the
\* awaited result is not read; a rejected await reaches the catch-all
StatusAfterAudit(outcome) == IF outcome = "throws" THEN 500 ELSE 200

\* Create audit log, then respond with the inserted counting record
InsertAuditLog(r, outcome) ==
  /\ req[r].pc = "audit"
  /\ audit_logs' =
       IF outcome = "ok"
         THEN Append(audit_logs, [user_id |-> Get(req[r].session).worker_id,
                                  action |-> "COUNT_BIN"])
         ELSE audit_logs
  /\ req' = [req EXCEPT ![r] = Response(StatusAfterAudit(outcome),
                                        IF outcome = "throws" THEN None
                                        ELSE req[r].countingData)]
  /\ UNCHANGED <<counting_sessions, counting_data, worker_performance, now,
                 today, rank, tabs>>

\* the client has read the response; the slot is free again
Complete(r) ==
  /\ req[r].pc = "done"
  /\ req' = [req EXCEPT ![r] = IdleReq]
  /\ UNCHANGED <<counting_sessions, counting_data, worker_performance,
                 audit_logs, now, today, rank, tabs>>

\* team-leader recount of a stored record; the generated column follows
Recount(i, q) ==
  /\ i \in DOMAIN counting_data
  /\ counting_data[i].qty_recounted_tl = NULL
  /\ counting_data' =
       [counting_data EXCEPT
          ![i].qty_recounted_tl = q,
          ![i].difference = Difference(counting_data[i].qty_counted, q,
                                       counting_data[i].qty_as_per_books)]
  /\ UNCHANGED <<counting_sessions, worker_performance, audit_logs, now,
                 today, req, rank, tabs>>

\* ---------------------------------------------- worker-performance: POST
\* the direct insert of a performance row: the body is stored as sent; the
\* store rejects an efficiency the column cannot hold (answered 400)
PostWorkerPerformance(body) ==
  /\ DecimalFits(body.efficiency)
  /\ worker_performance' = Append(worker_performance, body)
  /\ UNCHANGED <<counting_sessions, counting_data, audit_logs, now, today,
                 req, rank, tabs>>

PerfRow(w, d, bins, qty, minutes, eff) ==
  [wh_name |-> WarehouseOf(w), date |-> d, username |-> UserId(w),
   no_of_bins_counted |-> bins, no_of_qty_counted |-> qty,
   time_taken_minutes |-> minutes, efficiency |-> eff, ranking |-> NULL]

\* bodies of direct inserts: rows of warehouse A with efficiency 3.00 or
\* 5.00 and a row of warehouse B on one date, and a row of another date
RankDates == {1, 2}
RankEfficiencies == {300, 500}
PerfBodies ==
  {PerfRow("u1", 1, 1, 2, 1, e) : e \in RankEfficiencies}
    \cup {PerfRow("u2", 1, 1, 2, 1, 300), PerfRow("u1", 2, 1, 2, 1, 500)}

HasNoSession(w) ==
  \A sid \in DOMAIN counting_sessions : counting_sessions[sid].worker_id # w

\* ----------------------------------------------- worker-performance: GET
\* the rows of a date, optionally of one warehouse ("" is no filter)
Matching(date, warehouse) ==
  {i \in DOMAIN worker_performance :
     /\ worker_performance[i].date = date
     /\ warehouse # "" => worker_performance[i].wh_name = warehouse}

Min(a, b) == IF a < b THEN a ELSE b

\* .order('efficiency', {ascending: false}).limit(limit): every sequence of
\* row ids the store may answer with; rows of equal efficiency come in any
\* order
OrderedLimited(date, warehouse, limit) ==
  LET M == Matching(date, warehouse)
      k == Min(limit, Cardinality(M))
      eff(i) == worker_performance[i].efficiency
  IN {s \in [1..k -> M] :
        /\ \A a, b \in 1..k : a < b => s[a] # s[b] /\ eff(s[a]) >= eff(s[b])
        /\ \A m \in M : (\A a \in 1..k : s[a] # m) =>
                          \A a \in 1..k : eff(s[a]) >= eff(m)}

\* a map that ranks by the 0-based index
RankedDataFromZero(data) ==
  [index \in 1..Len(data) |->
     [id |-> data[index], efficiency |-> worker_performance[data[index]].efficiency,
      ranking |-> index - 1]]

\* data.map((item, index) => ({...item, ranking: index + 1}))
RankedData(data) ==
  [index \in 1..Len(data) |->
     [id |-> data[index], efficiency |-> worker_performance[data[index]].efficiency,
      ranking |-> index]]

\* the request arrives and the select is answered; with no row to write
\* back the response follows at once
GetWorkerPerformance(r, date, warehouse, limit) ==
  /\ rank[r].pc = "idle"
  /\ \E data \in OrderedLimited(date, warehouse, limit) :
       rank' = [rank EXCEPT ![r] =
                  [IdleRank EXCEPT
                     !.pc = IF Len(data) = 0 THEN "done" ELSE "writing",
                     !.date = date, !.warehouse = warehouse, !.limit = limit,
                     !.rankedData = RankedData(data), !.i = 1, !.status = 200]]
  /\ UNCHANGED <<counting_sessions, counting_data, worker_performance,
                 audit_logs, now, today, req, tabs>>

\* a write-back addressed by the position in the result instead of the id
UpdateRankingByPosition(r) ==
  /\ rank[r].pc = "writing"
  /\ LET item == rank[r].rankedData[rank[r].i]
     IN worker_performance' =
          [worker_performance EXCEPT ![rank[r].i].ranking = item.ranking]
  /\ rank' = [rank EXCEPT ![r].i = rank[r].i + 1,
                ![r].pc = IF rank[r].i = Len(rank[r].rankedData)
                            THEN "done" ELSE "writing"]
  /\ UNCHANGED <<counting_sessions, counting_data, audit_logs, now, today,
                 req, tabs>>

\* Update rankings in database: one row per await; after the last one the
\* ranked rows are the response
UpdateRanking(r) ==
  /\ rank[r].pc = "writing"
  /\ LET item == rank[r].rankedData[rank[r].i]
     IN worker_performance' =
          [worker_performance EXCEPT ![item.id].ranking = item.ranking]
  /\ rank' = [rank EXCEPT ![r].i = rank[r].i + 1,
                ![r].pc = IF rank[r].i = Len(rank[r].rankedData)
                            THEN "done" ELSE "writing"]
  /\ UNCHANGED <<counting_sessions, counting_data, audit_logs, now, today,
                 req, tabs>>

\* the client has read the leaderboard
CompleteRanking(r) ==
  /\ rank[r].pc = "done"
  /\ rank' = [rank EXCEPT ![r] = IdleRank]
  /\ UNCHANGED <<counting_sessions, counting_data, worker_performance,
                 audit_logs, now, today, req, tabs>>

\* ----------------------------------------- worker-performance: GET today
\* ids the path may carry: the users and one id that is no user's
WorkerIds == Workers \cup {"nobody"}

\* x || 0 on a column value
OrZero(x) == IF x = NULL THEN 0 ELSE x

\* the stats object built from the selected row, or from no row
TodayStats(performance) ==
  IF IsSome(performance)
    THEN LET row == worker_performance[Get(performance)]
         IN [todayBins |-> OrZero(row.no_of_bins_counted),
             todayQuantity |-> OrZero(row.no_of_qty_counted),
             todayTime |-> OrZero(row.time_taken_minutes),
             efficiency |-> OrZero(row.efficiency),
             ranking |-> OrZero(row.ranking)]
    ELSE [todayBins |-> 0, todayQuantity |-> 0, todayTime |-> 0,
          efficiency |-> 0, ranking |-> 0]

\* the request arrives, today is read, and the user is looked up; 404 when
\* the id is no user's
GetTodayPerformance(r, workerId) ==
  /\ rank[r].pc = "idle"
  /\ rank' = [rank EXCEPT ![r] =
                IF workerId \in Workers
                  THEN [IdleRank EXCEPT !.pc = "today", !.date = today,
                                        !.workerId = workerId]
                  ELSE [IdleRank EXCEPT !.pc = "done", !.status = 404]]
  /\ UNCHANGED <<counting_sessions, counting_data, worker_performance,
                 audit_logs, now, today, req, tabs>>

\* the row of (username, today) is selected with .single() and the stats
\* are the response
SelectTodayPerformance(r) ==
  /\ rank[r].pc = "today"
  /\ rank' = [rank EXCEPT ![r].pc = "done", ![r].status = 200,
                ![r].stats = Some(TodayStats(SinglePerf(UserId(rank[r].workerId),
                                                        rank[r].date)))]
  /\ UNCHANGED <<counting_sessions, counting_data, worker_performance,
                 audit_logs, now, today, req, tabs>>

\* ------------------------------------------------- CountingInterface
\* every tab renders the component for the same worker
TabWorker == "u1"

\* useEffect on mount: loadBins and checkActiveSession are sent; the
\* component renders with no bins and session = null until they are answered
Mount(t) ==
  /\ ~tabs[t].mounted
  /\ tabs' = [tabs EXCEPT ![t].mounted = TRUE, ![t].checking = TRUE,
                ![t].loadingBins = TRUE]
  /\ UNCHANGED <<counting_sessions, counting_data, worker_performance,
                 audit_logs, now, today, req, rank>>

\* the answer of GET /counting-session/active: a session is kept when one is
\* returned; a failed request is swallowed
checkActiveSession(t, ok) ==
  /\ tabs[t].checking
  /\ \/ /\ ok
        /\ ActiveSessions(TabWorker) = {}
        /\ tabs' = [tabs EXCEPT ![t].checking = FALSE]
     \/ /\ ok
        /\ \E sid \in ActiveSessions(TabWorker) :
             tabs' = [tabs EXCEPT ![t].checking = FALSE, ![t].session = sid]
     \/ /\ ~ok
        /\ tabs' = [tabs EXCEPT ![t].checking = FALSE]
  /\ UNCHANGED <<counting_sessions, counting_data, worker_performance,
                 audit_logs, now, today, req, rank>>

\* the Start Counting button: shown while session is null, disabled while
\* loading
startCounting(t) ==
  /\ tabs[t].mounted
  /\ tabs[t].session = NULL
  /\ ~tabs[t].loading
  /\ tabs' = [tabs EXCEPT ![t].loading = TRUE, ![t].error = "",
                ![t].pending = "start"]
  /\ UNCHANGED <<counting_sessions, counting_data, worker_performance,
                 audit_logs, now, today, req, rank>>

\* POST /counting-session/start is served and answered
startCountingDone(t, ok) ==
  /\ tabs[t].pending = "start"
  /\ IF ok
       THEN /\ counting_sessions' = SessionsAfterStart(TabWorker)
            /\ tabs' = [tabs EXCEPT ![t].session = Len(counting_sessions) + 1,
                          ![t].loading = FALSE, ![t].pending = "none"]
       ELSE /\ counting_sessions' = counting_sessions
            /\ tabs' = [tabs EXCEPT ![t].error = "Failed to start counting session",
                          ![t].loading = FALSE, ![t].pending = "none"]
  /\ UNCHANGED <<counting_data, worker_performance, audit_logs, now, today,
                 req, rank>>

\* the End Counting button: shown while a session is held, disabled while
\* loading; the request names the session held at the click
endCounting(t) ==
  /\ tabs[t].mounted
  /\ tabs[t].session # NULL
  /\ ~tabs[t].loading
  /\ tabs' = [tabs EXCEPT ![t].loading = TRUE, ![t].error = "",
                ![t].pending = "end", ![t].ending = tabs[t].session]
  /\ UNCHANGED <<counting_sessions, counting_data, worker_performance,
                 audit_logs, now, today, req, rank>>

\* POST /counting-session/end/{id} is served and answered; ending a session
\* that is already completed is an error
endCountingDone(t, ok) ==
  /\ tabs[t].pending = "end"
  /\ IF ok /\ CanEnd(tabs[t].ending)
       THEN /\ counting_sessions' = SessionsAfterEnd(tabs[t].ending)
            /\ tabs' = [tabs EXCEPT ![t].session = NULL,
                          ![t].selectedBin = NULL, ![t].quantity = <<>>,
                          ![t].loading = FALSE, ![t].pending = "none",
                          ![t].ending = NULL]
       ELSE /\ counting_sessions' = counting_sessions
            /\ tabs' = [tabs EXCEPT ![t].error = "Failed to end counting session",
                          ![t].loading = FALSE, ![t].pending = "none",
                          ![t].ending = NULL]
  /\ UNCHANGED <<counting_data, worker_performance, audit_logs, now, today,
                 req, rank>>

\* -------------------------------------------- CountingInterface: the form
\* bin_master rows of the warehouse: id -> bin_no and qty_as_per_books
Bins == {1, 2}
BinNo(b) == IF b = 1 THEN "BIN001" ELSE "BIN002"
BinBooks(b) == IF b = 1 THEN 2 ELSE 5

\* text of the quantity input, one character per element
QuantityTexts == {<<>>, <<"7">>, <<"1", "2">>, <<"-", "1">>, <<"x">>, <<" ">>}

DigitChars == <<"0", "1", "2", "3", "4", "5", "6", "7", "8", "9">>
IsDigit(c) == \E d \in 1..10 : DigitChars[d] = c
DigitValue(c) == (CHOOSE d \in 1..10 : DigitChars[d] = c) - 1

\* String.prototype.trim
RECURSIVE TrimStart(_)
TrimStart(text) ==
  IF text # <<>> /\ Head(text) = " " THEN TrimStart(Tail(text)) ELSE text

RECURSIVE TrimEnd(_)
TrimEnd(text) ==
  IF text # <<>> /\ text[Len(text)] = " "
    THEN TrimEnd(SubSeq(text, 1, Len(text) - 1))
    ELSE text

Trim(text) == TrimEnd(TrimStart(text))

\* the value of the longest prefix of digits, read left to right
RECURSIVE DigitsValue(_, _)
DigitsValue(text, acc) ==
  IF text # <<>> /\ IsDigit(Head(text))
    THEN DigitsValue(Tail(text), 10 * acc + DigitValue(Head(text)))
    ELSE acc

\* parseInt: leading white space is skipped, a sign is read, then digits up
\* to the first other character; NaN (no value) without a digit
ParseInt(text) ==
  LET t == TrimStart(text)
      signed == t # <<>> /\ Head(t) \in {"-", "+"}
      digits == IF signed THEN Tail(t) ELSE t
  IN IF digits = <<>> \/ ~IsDigit(Head(digits))
       THEN None
       ELSE Some(IF signed /\ Head(t) = "-"
                   THEN 0 - DigitsValue(digits, 0)
                   ELSE DigitsValue(digits, 0))

\* the answer of GET /bin-master: the bins are kept, or the error is shown
loadBins(t, ok) ==
  /\ tabs[t].loadingBins
  /\ tabs' = IF ok
               THEN [tabs EXCEPT ![t].loadingBins = FALSE, ![t].bins = Bins]
               ELSE [tabs EXCEPT ![t].loadingBins = FALSE,
                       ![t].error = "Failed to load bins"]
  /\ UNCHANGED <<counting_sessions, counting_data, worker_performance,
                 audit_logs, now, today, req, rank>>

\* a bin button: rendered for every loaded bin while a session is held;
\* the search term only narrows the list and is left out
selectBin(t, b) ==
  /\ tabs[t].mounted
  /\ tabs[t].session # NULL
  /\ b \in tabs[t].bins
  /\ tabs' = [tabs EXCEPT ![t].selectedBin = b]
  /\ UNCHANGED <<counting_sessions, counting_data, worker_performance,
                 audit_logs, now, today, req, rank>>

\* the quantity input: rendered while a session is held and a bin selected
setQuantity(t, text) ==
  /\ tabs[t].mounted
  /\ tabs[t].session # NULL
  /\ tabs[t].selectedBin # NULL
  /\ tabs' = [tabs EXCEPT ![t].quantity = text]
  /\ UNCHANGED <<counting_sessions, counting_data, worker_performance,
                 audit_logs, now, today, req, rank>>

\* the Submit button: rendered with the quantity input, disabled while the
\* trimmed quantity is empty or loading
handleQuantitySubmit(t) ==
  /\ tabs[t].mounted
  /\ tabs[t].session # NULL
  /\ tabs[t].selectedBin # NULL
  /\ Trim(tabs[t].quantity) # <<>>
  /\ ~tabs[t].loading
  /\ LET qty == ParseInt(tabs[t].quantity)
     IN tabs' = IF ~IsSome(qty) \/ Get(qty) < 0
                  THEN [tabs EXCEPT ![t].error = "Please enter a valid quantity"]
                  ELSE [tabs EXCEPT ![t].confirmation =
                          [binNo |-> BinNo(tabs[t].selectedBin),
                           quantity |-> Get(qty), show |-> TRUE]]
  /\ UNCHANGED <<counting_sessions, counting_data, worker_performance,
                 audit_logs, now, today, req, rank>>

\* the body confirmQuantity posts: the session and the bin held at the
\* click, the quantity of the confirmation
CountBody(tab) ==
  [sessionId |-> tab.session,
   binNo |-> BinNo(tab.selectedBin),
   qtyCountedWorker |-> tab.confirmation.quantity,
   qtyAsPerBooks |-> BinBooks(tab.selectedBin)]

\* the Confirm button of the modal: rendered while the confirmation shows,
\* disabled while loading; the handler returns at once without a session
\* or a selected bin
confirmQuantity(t) ==
  /\ tabs[t].mounted
  /\ tabs[t].confirmation.show
  /\ ~tabs[t].loading
  /\ tabs[t].session # NULL
  /\ tabs[t].selectedBin # NULL
  /\ tabs' = [tabs EXCEPT ![t].loading = TRUE, ![t].error = "",
                ![t].pending = "count",
                ![t].request = Some(CountBody(tabs[t]))]
  /\ UNCHANGED <<counting_sessions, counting_data, worker_performance,
                 audit_logs, now, today, req, rank>>

\* a response handler whose form reset runs on failure as well
confirmQuantityDoneResetting(t, ok) ==
  /\ tabs[t].pending = "count"
  /\ tabs' = IF ok
               THEN [tabs EXCEPT ![t].selectedBin = NULL, ![t].quantity = <<>>,
                       ![t].confirmation = NoConfirmation,
                       ![t].loading = FALSE, ![t].pending = "none",
                       ![t].request = None]
               ELSE [tabs EXCEPT ![t].error = "Failed to save counting data",
                       ![t].selectedBin = NULL, ![t].quantity = <<>>,
                       ![t].confirmation = NoConfirmation,
                       ![t].loading = FALSE, ![t].pending = "none",
                       ![t].request = None]
  /\ UNCHANGED <<counting_sessions, counting_data, worker_performance,
                 audit_logs, now, today, req, rank>>

\* POST /counting-data is answered: the form is reset on success, the
\* error is shown on failure; loading ends either way
confirmQuantityDone(t, ok) ==
  /\ tabs[t].pending = "count"
  /\ tabs' = IF ok
               THEN [tabs EXCEPT ![t].selectedBin = NULL, ![t].quantity = <<>>,
                       ![t].confirmation = NoConfirmation,
                       ![t].loading = FALSE, ![t].pending = "none",
                       ![t].request = None]
               ELSE [tabs EXCEPT ![t].error = "Failed to save counting data",
                       ![t].loading = FALSE, ![t].pending = "none",
                       ![t].request = None]
  /\ UNCHANGED <<counting_sessions, counting_data, worker_performance,
                 audit_logs, now, today, req, rank>>

\* the Cancel button of the modal: not disabled while loading
cancelConfirmation(t) ==
  /\ tabs[t].mounted
  /\ tabs[t].confirmation.show
  /\ tabs' = [tabs EXCEPT ![t].confirmation = NoConfirmation]
  /\ UNCHANGED <<counting_sessions, counting_data, worker_performance,
                 audit_logs, now, today, req, rank>>

\* ------------------------------------------------------------ specification
\* concurrent counting-data requests of one worker against the store
Next ==
  \/ \E w \in CountWorkers :
       /\ HasNoSession(w)
       /\ StartSession(w)
  \/ \E r \in Slots, body \in Bodies(Quantities) :
       /\ Len(counting_data) + Cardinality(InFlight) < MaxCounts
       /\ PostCountingData(r, body)
  \/ \E r \in Slots : LookupSession(r)
  \/ \E r \in Slots : InsertCountingData(r)
  \/ \E r \in Slots : SelectExistingPerf(r)
  \/ \E r \in Slots : WritePerformance(r)
  \/ \E r \in Slots, o \in AuditOutcomes : InsertAuditLog(r, o)
  \/ \E r \in Slots : Complete(r)

Spec == Init /\ [][Next]_vars

\* one counting-data request at a time through a session of any length;
\* the date changes between requests only
NextSeq ==
  \/ Tick
  \/ /\ req[1].pc = "idle"
     /\ NextDay
  \/ \E w \in CountWorkers :
       /\ HasNoSession(w)
       /\ StartSession(w)
  \/ \E sid \in DOMAIN counting_sessions : EndSession(sid)
  \/ \E body \in Bodies(SeqQuantities) :
       /\ Len(counting_data) < MaxSeqCounts
       /\ PostCountingData(1, body)
  \/ LookupSession(1)
  \/ InsertCountingData(1)
  \/ SelectExistingPerf(1)
  \/ WritePerformance(1)
  \/ \E o \in AuditOutcomes : InsertAuditLog(1, o)
  \/ Complete(1)

SpecSeq == Init /\ [][NextSeq]_vars

\* counts recorded one at a time and recounted by the team leader
NextRecount ==
  \/ \E w \in Workers :
       /\ Len(counting_sessions) < MaxSessions
       /\ StartSession(w)
  \/ \E body \in Bodies(Quantities) :
       /\ Len(counting_data) < MaxCounts
       /\ PostCountingData(1, body)
  \/ LookupSession(1)
  \/ InsertCountingData(1)
  \/ SelectExistingPerf(1)
  \/ WritePerformance(1)
  \/ \E o \in AuditOutcomes : InsertAuditLog(1, o)
  \/ Complete(1)
  \/ \E i \in DOMAIN counting_data, q \in RecountQuantities : Recount(i, q)

SpecRecount == Init /\ [][NextRecount]_vars

\* ------------------------------------------------------------------ claims
Days == 1..MaxDay

\* the counting records of a username on a date
RecordsOf(u, d) ==
  {i \in DOMAIN counting_data :
     counting_data[i].username = u /\ counting_data[i].date = d}

\* the performance rows of a username on a date
PerformanceOf(u, d) ==
  {i \in DOMAIN worker_performance :
     worker_performance[i].username = u /\ worker_performance[i].date = d}

RECURSIVE SumCounted(_)
SumCounted(S) ==
  IF S = {} THEN 0
  ELSE LET i == CHOOSE x \in S : TRUE
       IN counting_data[i].qty_counted + SumCounted(S \ {i})

\* C1: every stored counting record has difference = (recount if set,
\* otherwise the worker's count) - the book quantity stored with it, after
\* the insert and after any recount, whatever the request body carried
C1_DifferenceDerived ==
  \A i \in DOMAIN counting_data :
    counting_data[i].difference =
      (IF counting_data[i].qty_recounted_tl # NULL
         THEN counting_data[i].qty_recounted_tl
         ELSE counting_data[i].qty_counted) - counting_data[i].qty_as_per_books

\* a recounted record whose recount differs from the worker's count
C1_Witness ==
  \E i \in DOMAIN counting_data :
    /\ counting_data[i].qty_recounted_tl # NULL
    /\ counting_data[i].qty_recounted_tl # counting_data[i].qty_counted
    /\ counting_data[i].difference =
         counting_data[i].qty_recounted_tl - counting_data[i].qty_as_per_books

\* C4: once every request has completed, the performance row of a username
\* and day holds as many bins as counting records were inserted for them and
\* the sum of their counted quantities
C4_NoLostUpdate ==
  InFlight = {} =>
    \A u \in Usernames, d \in Days :
      RecordsOf(u, d) # {} =>
        \E i \in PerformanceOf(u, d) :
          /\ worker_performance[i].no_of_bins_counted = Cardinality(RecordsOf(u, d))
          /\ worker_performance[i].no_of_qty_counted = SumCounted(RecordsOf(u, d))

\* C8: a request whose session id resolves to no session is answered 404 by
\* the lookup step, which leaves the records, the performance rows and the
\* audit log as they were
C8_NotFoundChangesNothing ==
  [][\A r \in Slots :
       (/\ req[r].pc = "lookup"
        /\ req[r].sessionId \notin DOMAIN counting_sessions
        /\ req'[r] # req[r])
       => /\ req'[r].pc = "done"
          /\ req'[r].status = 404
          /\ req'[r].countingData = None
          /\ counting_data' = counting_data
          /\ worker_performance' = worker_performance
          /\ audit_logs' = audit_logs]_vars

\* a request answered 404 while another record is already stored
C8_Witness ==
  \E r \in Slots :
    /\ req[r].pc = "done"
    /\ req[r].status = 404
    /\ counting_data # <<>>

\* C9: when the audit insert adds no entry (it returned an error or threw),
\* the request is answered with success and the inserted record, and the
\* record and the performance rows stay as written
C9_AuditFailureSwallowed ==
  [][\A r \in Slots :
       (/\ req[r].pc = "audit"
        /\ req'[r].pc = "done"
        /\ audit_logs' = audit_logs)
       => /\ req'[r].status = 200
          /\ req'[r].countingData = req[r].countingData
          /\ counting_data' = counting_data
          /\ worker_performance' = worker_performance]_vars

\* C10: at most one performance row per (username, date)
C10_OneRowPerUserDate ==
  \A i, j \in DOMAIN worker_performance :
    (/\ worker_performance[i].username = worker_performance[j].username
     /\ worker_performance[i].date = worker_performance[j].date)
    => i = j

\* C3: with the requests executed one after another on one day, starting
\* from no performance row, a username with n records on a day has exactly
\* one performance row for that day, holding n bins and the sum of the n
\* counted quantities
C3_SequentialTotals ==
  req[1].pc \in {"idle", "done"} =>
    \A u \in Usernames, d \in Days :
      RecordsOf(u, d) # {} =>
        /\ Cardinality(PerformanceOf(u, d)) = 1
        /\ \A i \in PerformanceOf(u, d) :
             /\ worker_performance[i].no_of_bins_counted = Cardinality(RecordsOf(u, d))
             /\ worker_performance[i].no_of_qty_counted = SumCounted(RecordsOf(u, d))

\* the performance row a request's write addresses, in the table t
WrittenRow(q, t) ==
  IF IsSome(q.existingPerf) THEN t[Get(q.existingPerf).id] ELSE t[Len(t)]

\* C5: the write of a request leaves in its row the incremented bins, the
\* minutes of that update, and the efficiency round(bins * 6000 / minutes)
\* hundredths when those minutes are > 0, or 0 when they are 0
C5_EfficiencyStored ==
  [][\A r \in Slots :
       (req[r].pc = "write" /\ req'[r].pc = "audit")
       => /\ worker_performance' # <<>>
          /\ LET row == WrittenRow(req[r], worker_performance')
                 bins == (IF IsSome(req[r].existingPerf)
                            THEN Get(req[r].existingPerf).no_of_bins_counted
                            ELSE 0) + 1
             IN /\ row.no_of_bins_counted = bins
                /\ row.efficiency =
                     IF row.time_taken_minutes > 0
                       THEN (2 * bins * 6000 + row.time_taken_minutes)
                              \div (2 * row.time_taken_minutes)
                       ELSE 0]_vars

\* the worker's tabs start and end sessions against the session manager
NextSession ==
  \/ \E t \in Tabs : Mount(t)
  \/ \E t \in Tabs, ok \in BOOLEAN : checkActiveSession(t, ok)
  \/ \E t \in Tabs :
       /\ Len(counting_sessions) + Cardinality({x \in Tabs : tabs[x].pending = "start"})
            < MaxTabSessions
       /\ startCounting(t)
  \/ \E t \in Tabs, ok \in BOOLEAN : startCountingDone(t, ok)
  \/ \E t \in Tabs : endCounting(t)
  \/ \E t \in Tabs, ok \in BOOLEAN : endCountingDone(t, ok)

SpecSession == Init /\ [][NextSession]_vars

\* C2: a worker never has two sessions with status = active
C2_SingleActiveSession ==
  \A w \in Workers : Cardinality(ActiveSessions(w)) <= 1

\* leaderboard requests, one at a time, while rows are inserted directly
NextRank ==
  \/ \E body \in PerfBodies :
       /\ Len(worker_performance) < MaxPerfRows
       /\ PostWorkerPerformance(body)
  \/ \E date \in RankDates, warehouse \in {"", "A"}, limit \in {1, 2, DefaultLimit} :
       GetWorkerPerformance(1, date, warehouse, limit)
  \/ UpdateRanking(1)
  \/ CompleteRanking(1)

SpecRank == Init /\ [][NextRank]_vars

\* the ids of the rows a leaderboard request returned
Returned(k) == {k.rankedData[j].id : j \in 1..Len(k.rankedData)}

\* C6: the response of a leaderboard request carries the rankings 1..k in
\* response order and its rows are in non-increasing efficiency order
C6_RankingSequence ==
  \A r \in Slots :
    rank[r].pc = "done" =>
      \A j \in 1..Len(rank[r].rankedData) :
        /\ rank[r].rankedData[j].ranking = j
        /\ j < Len(rank[r].rankedData) =>
             rank[r].rankedData[j].efficiency >= rank[r].rankedData[j + 1].efficiency

\* a response of at least two rows, the first two of equal efficiency
C6_Witness ==
  \E r \in Slots :
    /\ rank[r].pc = "done"
    /\ Len(rank[r].rankedData) >= 2
    /\ rank[r].rankedData[1].efficiency = rank[r].rankedData[2].efficiency

\* C7 as claimed: when the request has answered, every row of its date and
\* warehouse that it did not return carries no rank
C7_ExcludedCarryNoRank ==
  \A r \in Slots :
    rank[r].pc = "done" =>
      \A i \in Matching(rank[r].date, rank[r].warehouse) \ Returned(rank[r]) :
        worker_performance[i].ranking = NULL

\* C7 as amended: the select returns min(L, matching) distinct matching
\* rows, none of lower efficiency than a matching row left out, and the
\* request never writes the ranking of a row it did not return
C7_TopRowsAndFrame ==
  [][\A r \in Slots :
       /\ (rank[r].pc = "idle" /\ rank'[r].pc # "idle") =>
            LET M == Matching(rank'[r].date, rank'[r].warehouse)
                got == Returned(rank'[r])
            IN /\ got \subseteq M
               /\ Cardinality(got) = Len(rank'[r].rankedData)
               /\ Cardinality(got) = Min(rank'[r].limit, Cardinality(M))
               /\ \A g \in got, m \in M \ got :
                    worker_performance[g].efficiency >= worker_performance[m].efficiency
               /\ worker_performance' = worker_performance
       /\ (rank[r].pc = "writing" /\ rank'[r] # rank[r]) =>
            \A i \in DOMAIN worker_performance \ Returned(rank[r]) :
              worker_performance'[i] = worker_performance[i]]_vars

\* a request with limit 1 over several matching rows has answered, and a row
\* it left out still carries the rank an earlier request gave it
C7_Witness ==
  \E r \in Slots :
    /\ rank[r].pc = "done"
    /\ rank[r].limit = 1
    /\ \E i \in Matching(rank[r].date, rank[r].warehouse) \ Returned(rank[r]) :
         worker_performance[i].ranking # NULL

\* the worker's tabs share the sessions they start while the clock runs
NextEnd ==
  \/ Tick
  \/ \E t \in Tabs : Mount(t)
  \/ \E t \in Tabs, ok \in BOOLEAN : checkActiveSession(t, ok)
  \/ \E t \in Tabs :
       /\ Len(counting_sessions) + Cardinality({x \in Tabs : tabs[x].pending = "start"})
            < MaxSessions
       /\ startCounting(t)
  \/ \E t \in Tabs, ok \in BOOLEAN : startCountingDone(t, ok)
  \/ \E t \in Tabs : endCounting(t)
  \/ \E t \in Tabs, ok \in BOOLEAN : endCountingDone(t, ok)

SpecEnd == Init /\ [][NextEnd]_vars

\* C11: the first endSession on an active session sets status = completed
\* and end_time = now; a session that is completed never changes again, and
\* a tab whose end request is answered for a session already completed gets
\* an error and keeps the session it holds
C11_EndNotRepeatable ==
  [][/\ \A sid \in DOMAIN counting_sessions :
         /\ counting_sessions[sid].status = "completed" =>
              counting_sessions'[sid] = counting_sessions[sid]
         /\ (/\ counting_sessions[sid].status = "active"
             /\ counting_sessions'[sid] # counting_sessions[sid]) =>
              /\ counting_sessions'[sid].status = "completed"
              /\ counting_sessions'[sid].end_time = now
     /\ \A t \in Tabs :
         (/\ tabs[t].pending = "end"
          /\ tabs'[t].pending = "none"
          /\ counting_sessions[tabs[t].ending].status = "completed") =>
           /\ tabs'[t].error # ""
           /\ tabs'[t].session = tabs[t].session
           /\ counting_sessions' = counting_sessions]_vars

\* a tab was refused the end of a session that another tab had completed
\* at an earlier time
C11_Witness ==
  \E t \in Tabs :
    /\ tabs[t].error = "Failed to end counting session"
    /\ tabs[t].session # NULL
    /\ counting_sessions[tabs[t].session].status = "completed"
    /\ counting_sessions[tabs[t].session].end_time < now

\* a worker's day is asked for while rows are inserted directly and ranked
NextToday ==
  \/ NextDay
  \/ \E body \in PerfBodies :
       /\ Len(worker_performance) < MaxPerfRows
       /\ PostWorkerPerformance(body)
  \/ \E date \in RankDates : GetWorkerPerformance(1, date, "", DefaultLimit)
  \/ UpdateRanking(1)
  \/ \E workerId \in WorkerIds : GetTodayPerformance(1, workerId)
  \/ SelectTodayPerformance(1)
  \/ CompleteRanking(1)

SpecToday == Init /\ [][NextToday]_vars

\* C12: the answer for an existing user carries the values of a row of
\* (username, today) whenever such a row exists, is all zero only when no
\* such row exists, and the request changes no stored row
C12_TodayReturnsRow ==
  [][\A r \in Slots :
       (rank[r].pc = "today" /\ rank'[r].pc = "done") =>
         LET rows == PerformanceOf(UserId(rank[r].workerId), rank[r].date)
             stats == Get(rank'[r].stats)
         IN /\ worker_performance' = worker_performance
            /\ rows # {} =>
                 \E i \in rows :
                   /\ stats.todayBins = worker_performance[i].no_of_bins_counted
                   /\ stats.todayQuantity = worker_performance[i].no_of_qty_counted
                   /\ stats.todayTime = worker_performance[i].time_taken_minutes
                   /\ stats.efficiency = worker_performance[i].efficiency
                   /\ stats.ranking = OrZero(worker_performance[i].ranking)
            /\ rows = {} =>
                 /\ stats.todayBins = 0
                 /\ stats.todayQuantity = 0
                 /\ stats.todayTime = 0
                 /\ stats.efficiency = 0
                 /\ stats.ranking = 0]_vars

\* requests of every kind reach the counting-data endpoint one at a time
NextValid ==
  \/ \E w \in CountWorkers :
       /\ HasNoSession(w)
       /\ StartSession(w)
  \/ \E request \in Requests :
       /\ Len(counting_data) < MaxValidCounts
       /\ SendCountingData(1, request)
  \/ ServeCountingData(1)
  \/ ListCountingData(1)
  \/ LookupSession(1)
  \/ InsertCountingData(1)
  \/ SelectExistingPerf(1)
  \/ WritePerformance(1)
  \/ \E o \in AuditOutcomes : InsertAuditLog(1, o)
  \/ Complete(1)

SpecValid == Init /\ [][NextValid]_vars

\* C13: a POST whose counted quantity is negative or whose body lacks a
\* required field never gets past the insert of its counting record, so it
\* stores no record and changes no performance row
C13_InvalidRejected ==
  \A r \in Slots :
    (/\ req[r].method = "POST"
     /\ req[r].qty < 0 \/ req[r].missing # {})
    => req[r].pc \in {"sent", "lookup", "insert"}

\* C14: a request without an Authorization header is answered 401 by the
\* first step of the handler, which leaves the records, the performance
\* rows and the audit log as they were; such a request is never seen at a
\* later step
C14_UnauthorizedChangesNothing ==
  [][\A r \in Slots :
       /\ (~req[r].authorized /\ req[r].pc \notin {"idle", "done"}) =>
            req[r].pc = "sent"
       /\ (/\ req[r].pc = "sent"
           /\ ~req[r].authorized
           /\ req'[r] # req[r])
          => /\ req'[r].pc = "done"
             /\ req'[r].status = 401
             /\ counting_data' = counting_data
             /\ worker_performance' = worker_performance
             /\ audit_logs' = audit_logs]_vars

\* a request is answered 401 while records are stored
C14_Witness ==
  \E r \in Slots :
    /\ req[r].pc = "done"
    /\ req[r].status = 401
    /\ counting_data # <<>>

\* C15: the write of a request through a session without end_time leaves
\* in its row the minutes stored before (0 without a row), with efficiency 0
\* on a fresh day; through a session with end_time it leaves the rounded
\* minutes between the session's start_time and end_time
C15_MinutesTaken ==
  [][\A r \in Slots :
       (req[r].pc = "write" /\ req'[r].pc = "audit")
       => /\ worker_performance' # <<>>
          /\ LET row == WrittenRow(req[r], worker_performance')
                 session == Get(req[r].session)
             IN IF session.end_time = NULL
                  THEN IF IsSome(req[r].existingPerf)
                         THEN row.time_taken_minutes =
                                Get(req[r].existingPerf).time_taken_minutes
                         ELSE /\ row.time_taken_minutes = 0
                              /\ row.efficiency = 0
                  ELSE row.time_taken_minutes =
                         (2 * (session.end_time - session.start_time) + 2) \div 4]_vars

\* the audit entry of a request
AuditEntry(q) == [user_id |-> Get(q.session).worker_id, action |-> "COUNT_BIN"]

\* the request's counting record is stored
RecordInserted(q) ==
  /\ IsSome(q.countingData)
  /\ Get(q.countingData) \in DOMAIN counting_data

\* C16 as claimed: every POST answered with success has appended exactly
\* one audit entry, COUNT_BIN by the session's worker, after its record and
\* its performance write
C16_SuccessLeavesOneAudit ==
  [][\A r \in Slots :
       (/\ req[r].pc = "audit"
        /\ req'[r].pc = "done"
        /\ req'[r].status = 200)
       => /\ RecordInserted(req[r])
          /\ audit_logs' = Append(audit_logs, AuditEntry(req[r]))]_vars

\* C16 as amended: the performance rows change only in the write step of a
\* request whose record is stored, the audit log changes only by one
\* COUNT_BIN entry of the session's worker appended in the audit step of
\* such a request, the steps come in the order insert, write, audit, and a
\* success answer follows the audit step with that one entry appended or,
\* when the audit insert failed, with none
C16_WriteOrder ==
  [][/\ worker_performance' # worker_performance =>
         \E r \in Slots :
           /\ req[r].pc = "write"
           /\ req'[r].pc = "audit"
           /\ RecordInserted(req[r])
     /\ audit_logs' # audit_logs =>
         \E r \in Slots :
           /\ req[r].pc = "audit"
           /\ RecordInserted(req[r])
           /\ audit_logs' = Append(audit_logs, AuditEntry(req[r]))
     /\ \A r \in Slots :
         /\ req'[r].pc = "write" => req[r].pc \in {"select", "write"}
         /\ req'[r].pc = "audit" => req[r].pc \in {"write", "audit"}
         /\ req'[r].pc = "select" =>
              /\ req[r].pc \in {"insert", "select"}
              /\ IsSome(req'[r].countingData)
              /\ Get(req'[r].countingData) \in DOMAIN counting_data'
         /\ (req[r].method = "POST" /\ req'[r].pc = "done" /\ req'[r].status = 200) =>
              /\ req[r].pc \in {"audit", "done"}
              /\ req[r].pc = "audit" =>
                   \/ audit_logs' = Append(audit_logs, AuditEntry(req[r]))
                   \/ audit_logs' = audit_logs]_vars

\* a request was answered with success although its audit insert failed:
\* fewer audit entries than counting records
C16_Witness ==
  \E r \in Slots :
    /\ req[r].pc = "done"
    /\ req[r].status = 200
    /\ IsSome(req[r].countingData)
    /\ Len(audit_logs) < Len(counting_data)
    /\ worker_performance # <<>>

\* leaderboard requests with different windows run at once over the rows of
\* one date, which hold at most one row per username
NextRankRace ==
  \/ \E body \in PerfBodies :
       /\ Len(worker_performance) < MaxRaceRows
       /\ PerformanceOf(body.username, body.date) = {}
       /\ PostWorkerPerformance(body)
  \/ \E r \in Slots, warehouse \in {"", "A"}, limit \in {1, DefaultLimit} :
       GetWorkerPerformance(r, 1, warehouse, limit)
  \/ \E r \in Slots : UpdateRanking(r)
  \/ \E r \in Slots : CompleteRanking(r)

SpecRankRace == Init /\ [][NextRankRace]_vars

\* C17: when a leaderboard request completes, the ranking stored on each
\* row it returned is the rank its response reports for that row
C17_StoredRankIsReported ==
  [][\A r \in Slots :
       (rank[r].pc = "writing" /\ rank'[r].pc = "done") =>
         \A j \in 1..Len(rank'[r].rankedData) :
           worker_performance'[rank'[r].rankedData[j].id].ranking =
             rank'[r].rankedData[j].ranking]_vars

\* the day's row before the racing counts: one bin so far, or 16 bins
\* counted within one minute (efficiency 960.00)
PriorRows ==
  {PerfRow("u1", 1, 1, 2, 0, 0), PerfRow("u1", 1, 16, 32, 1, 96000)}

\* two counts of one worker race on the worker's existing row of the day
NextCountRace ==
  \/ \E w \in CountWorkers :
       /\ HasNoSession(w)
       /\ StartSession(w)
  \/ \E body \in PriorRows :
       /\ worker_performance = <<>>
       /\ counting_data = <<>>
       /\ InFlight = {}
       /\ PostWorkerPerformance(body)
  \/ \E r \in Slots, body \in Bodies(Quantities) :
       /\ worker_performance # <<>>
       /\ Len(counting_data) + Cardinality(InFlight) < MaxRaceCounts
       /\ PostCountingData(r, body)
  \/ \E r \in Slots : LookupSession(r)
  \/ \E r \in Slots : InsertCountingData(r)
  \/ \E r \in Slots : SelectExistingPerf(r)
  \/ \E r \in Slots : WritePerformance(r)
  \/ \E r \in Slots, o \in AuditOutcomes : InsertAuditLog(r, o)
  \/ \E r \in Slots : Complete(r)

SpecCountRace == Init /\ [][NextCountRace]_vars

\* C18: when two requests have read the same existing performance row and
\* one of them has written, the write of the other leaves the row at the
\* bins read + 1 and the quantity read + its own counted quantity, with the
\* counting records of both stored
C18_LastWriteWins ==
  [][\A r, o \in Slots :
       (/\ r # o
        /\ req[r].pc = "write"
        /\ req'[r].pc = "audit"
        /\ req[o].pc = "audit"
        /\ IsSome(req[r].existingPerf)
        /\ req[o].existingPerf = req[r].existingPerf)
       => LET prior == Get(req[r].existingPerf)
              row == worker_performance'[prior.id]
          IN /\ row.no_of_bins_counted = prior.no_of_bins_counted + 1
             /\ row.no_of_qty_counted = prior.no_of_qty_counted + req[r].qty
             /\ RecordInserted(req[r])
             /\ RecordInserted(req[o])]_vars

\* one tab of the counting interface under every order of user events and
\* answers, while another client may end the worker's session
NextForm ==
  \/ Mount(1)
  \/ \E ok \in BOOLEAN : loadBins(1, ok)
  \/ \E ok \in BOOLEAN : checkActiveSession(1, ok)
  \/ /\ Len(counting_sessions) < MaxFormSessions
     /\ startCounting(1)
  \/ \E ok \in BOOLEAN : startCountingDone(1, ok)
  \/ endCounting(1)
  \/ \E ok \in BOOLEAN : endCountingDone(1, ok)
  \/ \E sid \in DOMAIN counting_sessions : EndSession(sid)
  \/ \E b \in Bins : selectBin(1, b)
  \/ \E text \in QuantityTexts : setQuantity(1, text)
  \/ handleQuantitySubmit(1)
  \/ confirmQuantity(1)
  \/ \E ok \in BOOLEAN : confirmQuantityDone(1, ok)
  \/ cancelConfirmation(1)

SpecForm == Init /\ [][NextForm]_vars

\* the answered request left the component as a failure must: an error is
\* shown, loading is over, the session, the selected bin, the quantity and
\* the confirmation are as before, and no request is under way that was
\* not under way before
FailureHandled(a, b) ==
  /\ b.error # ""
  /\ ~b.loading
  /\ b.session = a.session
  /\ b.selectedBin = a.selectedBin
  /\ b.quantity = a.quantity
  /\ b.confirmation = a.confirmation
  /\ b.pending = "none"
  /\ b.checking = a.checking
  /\ b.loadingBins = a.loadingBins

\* the answered request succeeded: the session is taken over (start), or
\* dropped with the form (end), or the form and the confirmation are reset
\* (count)
SuccessHandled(a, b) ==
  /\ b.error = a.error
  /\ ~b.loading
  /\ b.pending = "none"
  /\ a.pending = "start" => b.session = Len(counting_sessions) + 1
  /\ a.pending = "end" => b.session = NULL /\ b.selectedBin = NULL
  /\ a.pending = "count" =>
       b.selectedBin = NULL /\ b.confirmation = NoConfirmation

\* C19: the answer to a start, end or count request is handled as a
\* success or, when the request failed, by showing an error, ending
\* loading, keeping session, selected bin and confirmation, and sending
\* nothing further; a start or end that changed no session is a failure,
\* and so is a count that left the bin selected
C19_FailureKeepsState ==
  [][\A t \in Tabs :
       (tabs[t].pending \in {"start", "end", "count"} /\ tabs'[t].pending = "none")
       => /\ \/ FailureHandled(tabs[t], tabs'[t])
             \/ SuccessHandled(tabs[t], tabs'[t])
          /\ (/\ tabs[t].pending \in {"start", "end"}
              /\ counting_sessions' = counting_sessions)
             => FailureHandled(tabs[t], tabs'[t])
          /\ (tabs[t].pending = "count" /\ tabs'[t].selectedBin # NULL)
             => FailureHandled(tabs[t], tabs'[t])]_vars

\* a count request has failed while its confirmation was showing: the
\* error is up, and the session, the bin and the confirmation are held
C19_Witness ==
  \E t \in Tabs :
    /\ tabs[t].error = "Failed to save counting data"
    /\ tabs[t].pending = "none"
    /\ ~tabs[t].loading
    /\ tabs[t].session # NULL
    /\ tabs[t].selectedBin # NULL
    /\ tabs[t].confirmation.show

\* C20: a count is posted only while a session is held, a bin is selected
\* and a confirmation shows a quantity >= 0; the posted binNo and
\* qtyAsPerBooks are those of the bin the confirmation was opened for, and
\* the posted quantity is the confirmation's
C20_PostsWhatWasConfirmed ==
  [][\A t \in Tabs :
       (tabs[t].pending # "count" /\ tabs'[t].pending = "count")
       => LET body == Get(tabs'[t].request)
          IN /\ tabs[t].session # NULL
             /\ tabs[t].selectedBin # NULL
             /\ tabs[t].confirmation.show
             /\ tabs[t].confirmation.quantity >= 0
             /\ body.sessionId = tabs[t].session
             /\ body.qtyCountedWorker = tabs[t].confirmation.quantity
             /\ body.binNo = tabs[t].confirmation.binNo
             /\ \E b \in Bins :
                  /\ BinNo(b) = tabs[t].confirmation.binNo
                  /\ body.qtyAsPerBooks = BinBooks(b)]_vars

\* counts of one worker run at once while the day's leaderboard is read
\* and its rankings are written back; every audit insert succeeds
NextDayCounts ==
  \/ \E w \in CountWorkers :
       /\ HasNoSession(w)
       /\ StartSession(w)
  \/ \E r \in Slots, body \in Bodies(SeqQuantities) :
       /\ Len(counting_data) < MaxDayCounts
       /\ PostCountingData(r, body)
  \/ \E r \in Slots : LookupSession(r)
  \/ \E r \in Slots : InsertCountingData(r)
  \/ \E r \in Slots : SelectExistingPerf(r)
  \/ \E r \in Slots : WritePerformance(r)
  \/ \E r \in Slots : InsertAuditLog(r, "ok")
  \/ \E r \in Slots : Complete(r)
  \/ GetWorkerPerformance(1, 1, "", DefaultLimit)
  \/ UpdateRanking(1)
  \/ CompleteRanking(1)

SpecDayCounts == Init /\ [][NextDayCounts]_vars

\* C21: from one state to the next no performance row loses bins, and,
\* the counted quantities being >= 0, none loses quantity; rows are never
\* removed, so this holds for the rows of every (username, date)
C21_BinsNeverDecrease ==
  [][/\ Len(worker_performance') >= Len(worker_performance)
     /\ \A i \in DOMAIN worker_performance :
          /\ worker_performance'[i].username = worker_performance[i].username
          /\ worker_performance'[i].date = worker_performance[i].date
          /\ worker_performance'[i].no_of_bins_counted >=
               worker_performance[i].no_of_bins_counted
          /\ worker_performance'[i].no_of_qty_counted >=
               worker_performance[i].no_of_qty_counted]_vars
====
